---------------------------- MODULE Spec2Model ----------------------------
(***************************************************************************)
(* A model of facebook_scraper.py: main() drives one browser page through  *)
(* navigation, cookie-consent dismissal, login_to_facebook,                *)
(* search_facebook and extract_recent_posts.                               *)
(*                                                                         *)
(* The browser (Playwright) is an external collaborator.  It is modelled   *)
(* by what the script can observe of it:                                   *)
(*   - dom: for every selector the current stage uses, the DOM-ordered     *)
(*     list of elements matching it (each with its visibility and text);   *)
(*     query_selector returns the first match, query_selector_all all of   *)
(*     them, wait_for_selector(state="visible") succeeds when a matching   *)
(*     element is visible (the reading the script's own comment at line    *)
(*     243 gives) and times out otherwise;                                 *)
(*   - every collaborator call may raise: PlaywrightTimeoutError           *)
(*     ("timeout") for the calls that wait, any other Exception ("error")  *)
(*     for all of them;                                                    *)
(*   - the page content a stage sees is chosen when the stage starts, the  *)
(*     URL when the action that navigates (click, key press) succeeds.     *)
(* Texts and URLs are strings; strip, lower and "in" are computed on them. *)
(***************************************************************************)
EXTENDS Integers, Sequences, FiniteSets, TLC

(***************************************************************************)
(* Bounds of the model.                                                    *)
(***************************************************************************)
\* longest list of elements one selector matches on a generated page
MaxShape == 2
\* longest list of post containers whose texts are enumerated
MaxPosts == 3
\* largest count extract_recent_posts is called with on its own
MaxCount == 3

(***************************************************************************)
(* str.strip, str.lower, "in" and len on strings.                          *)
(***************************************************************************)
UpperAlphabet == "ABCDEFGHIJKLMNOPQRSTUVWXYZ"
LowerAlphabet == "abcdefghijklmnopqrstuvwxyz"

CharAt(s, i) == SubSeq(s, i, i)

IsSpace(c) == c \in {" ", "\n", "\t"}

UpperLetters == {CharAt(UpperAlphabet, i) : i \in 1..26}
ToLower ==
    [c \in UpperLetters |->
        CharAt(LowerAlphabet, CHOOSE i \in 1..26 : CharAt(UpperAlphabet, i) = c)]

lower_char(c) == IF c \in UpperLetters THEN ToLower[c] ELSE c

RECURSIVE lower(_)
lower(s) ==
    IF Len(s) = 0 THEN s
    ELSE lower_char(CharAt(s, 1)) \o lower(SubSeq(s, 2, Len(s)))

RECURSIVE lstrip(_)
lstrip(s) ==
    IF Len(s) = 0 THEN s
    ELSE IF IsSpace(CharAt(s, 1)) THEN lstrip(SubSeq(s, 2, Len(s))) ELSE s

RECURSIVE rstrip(_)
rstrip(s) ==
    IF Len(s) = 0 THEN s
    ELSE IF IsSpace(CharAt(s, Len(s))) THEN rstrip(SubSeq(s, 1, Len(s) - 1)) ELSE s

strip(s) == rstrip(lstrip(s))

\* Python's  sub in s
contains(s, sub) ==
    \E i \in 1..(Len(s) - Len(sub) + 1) : SubSeq(s, i, i + Len(sub) - 1) = sub

RECURSIVE Pad(_)
Pad(n) == IF n <= 0 THEN "" ELSE "x" \o Pad(n - 1)


(***************************************************************************)
(* Literals of the script.                                                 *)
(***************************************************************************)
email_selector == "input[name=\"email\"]"
pass_selector == "input[name=\"pass\"]"

login_button_selectors ==
    << "button[name=\"login\"]",
       "button[type=\"submit\"]",
       "input[type=\"submit\"][value=\"Log In\"]" >>

search_trigger_selectors ==
    << "a[aria-label*=\"Search\"]", "button[aria-label*=\"Search\"]",
       "a[href*=\"/search/\"]", "button[data-testid*=\"search_input\"]",
       "input[type=\"search\"]", "input[name=\"q\"]" >>

default_search_field_selector == "input[type=\"search\"], input[name=\"q\"]"

post_container_selectors ==
    << "article",
       "div[role='article']",
       "div[data-pagelet^='FeedUnit']",
       "div[data-mcomponent='ServerFeedUnit']",
       "div[aria-posinset]" >>

common_non_post_phrases ==
    { "commented on this", "shared this", "reacted to this",
      "suggested for you", "people you may know", "is live now" }

cookie_banner_selectors ==
    << "button[data-cookiebanner='accept_button']",
       "//button[contains(text(), 'Allow all cookies')]",
       "//button[contains(text(), 'Accept All')]",
       "//button[contains(text(), 'Allow essential and optional cookies')]" >>

\* the length under which a text holding a noise phrase is skipped
MinLength == 75
\* the count main passes to extract_recent_posts
MainCount == 3
search_keyword == "Bkash"
home_url == "https://m.facebook.com"

\* the tag an element matched by a selector has: the selector names it
tag_name(sel) ==
    IF SubSeq(sel, 1, 5) = "input" THEN "input"
    ELSE IF SubSeq(sel, 1, 6) = "button" THEN "button"
    ELSE IF SubSeq(sel, 1, 1) = "a" THEN "a"
    ELSE "div"

(***************************************************************************)
(* Pages: the inputs the environment supplies.                             *)
(***************************************************************************)
Rng(seq) == {seq[i] : i \in DOMAIN seq}

Elem(s, i, v, t) == [sel |-> s, idx |-> i, vis |-> v, text |-> t]

Shapes == UNION {[1..n -> BOOLEAN] : n \in 0..MaxShape}
NonEmptyShapes == Shapes \ {<< >>}
FieldShapes == {<< >>, <<FALSE>>, <<TRUE>>}

\* the elements a selector matches, from their visibility flags and texts
ListOf(s, shape, texts) ==
    [i \in 1..Len(shape) |-> Elem(s, i, shape[i], texts[i])]

Blank(n) == [i \in 1..n |-> ""]

\* pages on which exactly the selectors of one set of the family match
\* something, every element with text t
PagesPopulating(family, sels, t) ==
    UNION { { [s \in sels |->
                 IF s \in S
                 THEN ListOf(s, g[s], [i \in 1..Len(g[s]) |-> t])
                 ELSE << >>] : g \in [S -> NonEmptyShapes] }
            : S \in family }

\* pages on which no, one or two of the selectors match anything
ShapePages(sels, t) ==
    PagesPopulating({{}} \cup {{a, b} : a \in sels, b \in sels}, sels, t)

\* pages on which no or one of the selectors matches anything
SinglePages(sels, t) ==
    PagesPopulating({{}} \cup {{a} : a \in sels}, sels, t)

EmptyPage(sels) == [s \in sels |-> << >>]

ConsentPages == ShapePages(Rng(cookie_banner_selectors), "")

\* the login form: the two fields, and the submit controls of page b
LoginForms(buttons) ==
    { f @@ b :
        f \in { [s \in {email_selector, pass_selector} |->
                   ListOf(s, IF s = email_selector THEN e ELSE p, Blank(1))]
                : e \in FieldShapes, p \in FieldShapes },
        b \in buttons }

\* the pages the stages see when called on their own ...
LoginPages == LoginForms(ShapePages(Rng(login_button_selectors), ""))
SearchPages == ShapePages(Rng(search_trigger_selectors), "")
\* ... and within a run of main
MainLoginPages == LoginForms(SinglePages(Rng(login_button_selectors), ""))
MainSearchPages == SinglePages(Rng(search_trigger_selectors), "")

\* URLs the page may show after the login form is submitted
LoginUrls ==
    { "https://m.facebook.com/checkpoint/1501092823525282/",
      "https://m.facebook.com/Checkpoint/?next=home.php",
      "https://m.facebook.com/login.php?e=1348131",
      "https://m.facebook.com/Login/?next=home.php",
      "https://m.facebook.com/login/save-device/?ref=search",
      "https://m.facebook.com/home.php",
      "https://m.facebook.com/" }

\* URLs and titles the page may show after the search is submitted
SearchUrls ==
    { "https://m.facebook.com/search/top/?q=bkash",
      "https://m.facebook.com/home.php" }
SearchTitles == { "BKASH - Search Results | Facebook", "Facebook" }

\* texts of post containers
Texts ==
    { "",
      " \n ",
      "Like",
      "  Bob Shared This\n",
      "  " \o Pad(MinLength - 1 - Len(" is live now")) \o " is live now" \o "  ",
      "\t" \o Pad(MinLength - Len(" is live now")) \o " is live now" \o "\n" }
DefaultText == "Like"


\* result pages that vary which selectors match and what is visible
ResolutionPages == ShapePages(Rng(post_container_selectors), DefaultText)

\* result pages that vary the texts of the containers the first selector matches
PostKinds == {<<TRUE, t>> : t \in Texts} \cup {<<FALSE, DefaultText>>}
ContentPages ==
    { [s \in Rng(post_container_selectors) |->
         IF s = post_container_selectors[1]
         THEN [i \in 1..Len(l) |-> Elem(s, i, l[i][1], l[i][2])]
         ELSE << >>]
      : l \in UNION {[1..n -> PostKinds] : n \in 1..MaxPosts} }

\* Scenario A of the specification: A matches nothing, B two visible
\* containers, C five
ScenarioA ==
    [s \in Rng(post_container_selectors) |->
        IF s = post_container_selectors[2]
        THEN ListOf(s, <<TRUE, TRUE>>, <<"Bkash offer", "Send money">>)
        ELSE IF s = post_container_selectors[3]
        THEN ListOf(s, <<TRUE, TRUE, TRUE, TRUE, TRUE>>,
                    <<"c1", "c2", "c3", "c4", "c5">>)
        ELSE << >>]

\* Scenario C of the specification: five containers, the first two short
\* and holding a noise phrase, the last three acceptable
ScenarioC ==
    [s \in Rng(post_container_selectors) |->
        IF s = post_container_selectors[1]
        THEN ListOf(s, <<TRUE, TRUE, TRUE, TRUE, TRUE>>,
                    <<"Bob shared this", "Suggested for you",
                      "Bkash offer today", "Send money with bKash",
                      "Cashback on payments">>)
        ELSE << >>]

PostPages == ResolutionPages \cup ContentPages \cup {ScenarioA, ScenarioC}
MainPostPages ==
    SinglePages(Rng(post_container_selectors), DefaultText)
        \cup {ScenarioA, ScenarioC}

(***************************************************************************)
(* The collaborator's queries, read off the page.                          *)
(***************************************************************************)
NoElement == Elem("", 0, FALSE, "")

\* page.query_selector: the first match, or None
query_selector(d, sel) == IF d[sel] = << >> THEN NoElement ELSE d[sel][1]

\* page.query_selector_all: every match, in DOM order
query_selector_all(d, sel) == d[sel]

\* as wait_for_selector, without state="visible"
wait_for_selector_attached(d, sel) == d[sel] # << >>

\* page.wait_for_selector(sel, state="visible") returns (does not time out)
wait_for_selector(d, sel) == \E i \in DOMAIN d[sel] : d[sel][i].vis

found_any(d, sel) == query_selector(d, sel) # NoElement

\* "button and button.is_visible()"
found_and_visible(d, sel) ==
    query_selector(d, sel) # NoElement /\ query_selector(d, sel).vis

(***************************************************************************)
(* State.                                                                  *)
(***************************************************************************)
VARIABLES
    entry,       \* the function called: "main", "login", "search", "extract"
    pc,          \* the statement about to run
    exc,         \* the exception in flight: "none", "timeout", "error"
    ops,         \* collaborator calls issued since the current stage began
    stageLog,    \* stage calls and their outcomes, in order
    browser,     \* "none", "open", "closed"
    closes,      \* number of browser.close() calls
    pageExists,  \* 'page' in locals() and page
    uncaught,    \* the exception that left main, "none" if none did
    ci, cookie_banner_clicked,
    login_successful, search_successful, posts,
    dom, url, title,
    li, login_button_found, label,
    si, search_field_actual_selector, search_interaction_done, warned,
    count, xi, post_elements, selected, ei, extracted_posts,
    resolved_before  \* what an earlier call on the same page resolved, << >> if none

ctlVars == <<entry, pc, exc, ops, stageLog>>
mainVars == <<browser, closes, pageExists, uncaught, ci, cookie_banner_clicked,
              login_successful, search_successful, posts>>
envVars == <<dom, url, title>>
loginVars == <<li, login_button_found, label>>
searchVars == <<si, search_field_actual_selector, search_interaction_done, warned>>
extractVars == <<count, xi, post_elements, selected, ei, extracted_posts>>
vars == <<ctlVars, mainVars, envVars, loginVars, searchVars, extractVars,
          resolved_before>>

Op(o, s, i, r) == [op |-> o, sel |-> s, idx |-> i, out |-> r]
Ev(s, e) == [stage |-> s, ev |-> e]

\* labels of the snapshots captured since the current stage began
Shots ==
    LET taken == SelectSeq(ops, LAMBDA o : o.op = "screenshot" /\ o.out = "ok")
    IN  [i \in 1..Len(taken) |-> taken[i].sel]

\* what a call that waits, and a call that does not, may raise
Waits == {"ok", "timeout", "error"}
NoWait == {"ok", "error"}

LoginLocals0 == li = 1 /\ login_button_found = FALSE /\ label = ""
SearchLocals0 ==
    /\ si = 1
    /\ search_field_actual_selector = default_search_field_selector
    /\ search_interaction_done = FALSE
    /\ warned = FALSE
ExtractLocals0 ==
    /\ xi = 1 /\ post_elements = << >> /\ selected = 0 /\ ei = 1
    /\ extracted_posts = << >>

Init ==
    /\ entry = "main" /\ pc = "launch" /\ exc = "none"
    /\ ops = << >> /\ stageLog = << >>
    /\ browser = "none" /\ closes = 0 /\ pageExists = FALSE /\ uncaught = "none"
    /\ ci = 1 /\ cookie_banner_clicked = FALSE
    /\ login_successful = FALSE /\ search_successful = FALSE /\ posts = << >>
    /\ dom = EmptyPage({}) /\ url = "about:blank" /\ title = ""
    /\ LoginLocals0 /\ SearchLocals0 /\ ExtractLocals0
    /\ count = MainCount
    /\ resolved_before = << >>

(***************************************************************************)
(* main: launch, navigation, cookie consent (lines 330-370).               *)
(***************************************************************************)
\* an exception raised in main's try block reaches main's except clauses
MainRaise(r) == pc' = "main_except" /\ exc' = r

\* browser = p.chromium.launch()
Launch ==
    /\ pc = "launch"
    /\ \E r \in Waits :
         /\ ops' = Append(ops, Op("launch", "chromium", 0, r))
         /\ IF r = "ok"
            THEN browser' = "open" /\ pc' = "new_page" /\ exc' = exc
            ELSE browser' = browser /\ MainRaise(r)
    /\ UNCHANGED <<entry, resolved_before, stageLog, closes, pageExists, uncaught, ci,
                   cookie_banner_clicked, login_successful, search_successful,
                   posts, envVars, loginVars, searchVars, extractVars>>

\* page = browser.new_page()
NewPage ==
    /\ pc = "new_page"
    /\ \E r \in NoWait :
         /\ ops' = Append(ops, Op("new_page", "", 0, r))
         /\ IF r = "ok"
            THEN pageExists' = TRUE /\ pc' = "set_headers" /\ exc' = exc
            ELSE pageExists' = pageExists /\ MainRaise(r)
    /\ UNCHANGED <<entry, resolved_before, stageLog, browser, closes, uncaught, ci,
                   cookie_banner_clicked, login_successful, search_successful,
                   posts, envVars, loginVars, searchVars, extractVars>>

\* page.set_extra_http_headers(...)
SetHeaders ==
    /\ pc = "set_headers"
    /\ \E r \in NoWait :
         /\ ops' = Append(ops, Op("set_extra_http_headers", "", 0, r))
         /\ IF r = "ok" THEN pc' = "goto" /\ exc' = exc ELSE MainRaise(r)
    /\ UNCHANGED <<entry, resolved_before, stageLog, mainVars, envVars, loginVars, searchVars,
                   extractVars>>

\* page.goto('https://m.facebook.com', timeout=60000)
Goto ==
    /\ pc = "goto"
    /\ \E r \in Waits :
         /\ ops' = Append(ops, Op("goto", home_url, 0, r))
         /\ IF r = "ok"
            THEN /\ pc' = "home_shot" /\ exc' = exc
                 /\ url' = home_url
                 /\ dom' \in ConsentPages
            ELSE MainRaise(r) /\ UNCHANGED <<url, dom>>
    /\ UNCHANGED <<entry, resolved_before, stageLog, mainVars, title, loginVars, searchVars,
                   extractVars>>

\* page.screenshot(path="facebook_home_page.png")
HomeShot ==
    /\ pc = "home_shot"
    /\ \E r \in Waits :
         /\ ops' = Append(ops, Op("screenshot", "facebook_home_page", 0, r))
         /\ IF r = "ok" THEN pc' = "cookie_loop" /\ exc' = exc ELSE MainRaise(r)
    /\ UNCHANGED <<entry, resolved_before, stageLog, mainVars, envVars, loginVars, searchVars,
                   extractVars>>

\* where the consent loop goes with its next candidate
CookieNext(i) ==
    IF i > Len(cookie_banner_selectors) THEN "login_call" ELSE "cookie_loop"

\* the loop's position; the iterator is gone once the loop is left
CookieIndex(i) == IF i > Len(cookie_banner_selectors) THEN 1 ELSE i

\* button = page.query_selector(selector); if button and button.is_visible()
CookieProbe ==
    /\ pc = "cookie_loop"
    /\ LET sel == cookie_banner_selectors[ci] IN
       \E r \in NoWait :
         /\ ops' = Append(ops, Op("query_selector", sel, 0, r))
         /\ IF r # "ok" THEN MainRaise(r) /\ ci' = ci
            ELSE IF found_and_visible(dom, sel)
            THEN pc' = "cookie_click" /\ exc' = exc /\ ci' = ci
            ELSE pc' = CookieNext(ci + 1) /\ exc' = exc /\ ci' = CookieIndex(ci + 1)
    /\ UNCHANGED <<entry, resolved_before, stageLog, browser, closes, pageExists, uncaught,
                   cookie_banner_clicked, login_successful, search_successful,
                   posts, envVars, loginVars, searchVars, extractVars>>

\* button.click(timeout=5000); cookie_banner_clicked = True
CookieClick ==
    /\ pc = "cookie_click"
    /\ \E r \in Waits :
         /\ ops' = Append(ops, Op("click", cookie_banner_selectors[ci], 0, r))
         /\ IF r = "ok"
            THEN /\ cookie_banner_clicked' = TRUE
                 /\ pc' = "cookie_clicked_shot"
                 \* the banner may go away or stay
                 /\ dom' \in {dom, EmptyPage(DOMAIN dom)}
            ELSE /\ cookie_banner_clicked' = cookie_banner_clicked
                 /\ pc' = "cookie_error_shot"
                 /\ dom' = dom
    /\ UNCHANGED <<entry, resolved_before, exc, stageLog, browser, closes, pageExists, uncaught,
                   ci, login_successful, search_successful, posts, url, title,
                   loginVars, searchVars, extractVars>>

\* time.sleep(2); page.screenshot(path="cookie_consent_clicked.png"); break
CookieClickedShot ==
    /\ pc = "cookie_clicked_shot"
    /\ \E r \in Waits :
         /\ ops' = Append(ops, Op("screenshot", "cookie_consent_clicked", 0, r))
         /\ pc' = IF r = "ok" THEN "login_call" ELSE "cookie_error_shot"
         /\ ci' = IF r = "ok" THEN 1 ELSE ci
    /\ UNCHANGED <<entry, resolved_before, exc, stageLog, browser, closes, pageExists, uncaught,
                   cookie_banner_clicked, login_successful, search_successful,
                   posts, envVars, loginVars, searchVars, extractVars>>

\* except Exception: page.screenshot(path="cookie_consent_click_error.png")
CookieErrorShot ==
    /\ pc = "cookie_error_shot"
    /\ \E r \in Waits :
         /\ ops' = Append(ops, Op("screenshot", "cookie_consent_click_error", 0, r))
         /\ IF r = "ok"
            THEN pc' = CookieNext(ci + 1) /\ exc' = exc /\ ci' = CookieIndex(ci + 1)
            ELSE MainRaise(r) /\ ci' = ci
    /\ UNCHANGED <<entry, resolved_before, stageLog, browser, closes, pageExists, uncaught,
                   cookie_banner_clicked, login_successful, search_successful,
                   posts, envVars, loginVars, searchVars, extractVars>>


(***************************************************************************)
(* login_to_facebook (lines 88-154).                                       *)
(***************************************************************************)
\* an exception raised in the try block reaches the function's except clauses
LoginRaise(r) == pc' = "login_except" /\ exc' = r

\* a stage lets an exception out: it reaches its caller
StageEscape(stage, r) ==
    /\ stageLog' = Append(stageLog, Ev(stage, "raised"))
    /\ exc' = r
    /\ pc' = IF entry = "main" THEN "main_except" ELSE "escaped"

\* login_successful = login_to_facebook(page, fb_email, fb_password)
MainCallLogin ==
    /\ pc = "login_call"
    /\ pc' = "login_wait_email"
    /\ stageLog' = Append(stageLog, Ev("login", "call"))
    /\ ops' = << >>
    /\ dom' \in MainLoginPages
    /\ li' = 1 /\ login_button_found' = FALSE /\ label' = ""
    /\ UNCHANGED <<entry, resolved_before, exc, mainVars, url, title, searchVars, extractVars>>

\* page.wait_for_selector('input[name="email"]', timeout=10000, state="visible")
LoginWaitEmail ==
    /\ pc = "login_wait_email"
    /\ \E r \in {IF wait_for_selector(dom, email_selector) THEN "ok" ELSE "timeout",
                 "error"} :
         /\ ops' = Append(ops, Op("wait_for_selector", email_selector, 0, r))
         /\ IF r = "ok" THEN pc' = "login_fill_email" /\ exc' = exc ELSE LoginRaise(r)
    /\ UNCHANGED <<entry, resolved_before, stageLog, mainVars, envVars, loginVars, searchVars,
                   extractVars>>

\* page.fill('input[name="email"]', email)
LoginFillEmail ==
    /\ pc = "login_fill_email"
    /\ \E r \in Waits :
         /\ ops' = Append(ops, Op("fill", email_selector, 0, r))
         /\ IF r = "ok" THEN pc' = "login_wait_pass" /\ exc' = exc ELSE LoginRaise(r)
    /\ UNCHANGED <<entry, resolved_before, stageLog, mainVars, envVars, loginVars, searchVars,
                   extractVars>>

\* page.wait_for_selector('input[name="pass"]', timeout=10000, state="visible")
LoginWaitPass ==
    /\ pc = "login_wait_pass"
    /\ \E r \in {IF wait_for_selector(dom, pass_selector) THEN "ok" ELSE "timeout",
                 "error"} :
         /\ ops' = Append(ops, Op("wait_for_selector", pass_selector, 0, r))
         /\ IF r = "ok" THEN pc' = "login_fill_pass" /\ exc' = exc ELSE LoginRaise(r)
    /\ UNCHANGED <<entry, resolved_before, stageLog, mainVars, envVars, loginVars, searchVars,
                   extractVars>>

\* page.fill('input[name="pass"]', password)
LoginFillPass ==
    /\ pc = "login_fill_pass"
    /\ \E r \in Waits :
         /\ ops' = Append(ops, Op("fill", pass_selector, 0, r))
         /\ IF r = "ok" THEN pc' = "login_button_loop" /\ exc' = exc ELSE LoginRaise(r)
    /\ UNCHANGED <<entry, resolved_before, stageLog, mainVars, envVars, loginVars, searchVars,
                   extractVars>>

\* for selector in login_button_selectors:
\*     button = page.query_selector(selector)
\*     if button and button.is_visible(): ...
LoginButtonProbe ==
    /\ pc = "login_button_loop"
    /\ LET sel == login_button_selectors[li] IN
       \E r \in NoWait :
         /\ ops' = Append(ops, Op("query_selector", sel, 0, r))
         /\ IF r # "ok" THEN LoginRaise(r) /\ li' = li
            ELSE IF found_and_visible(dom, sel)
            THEN pc' = "login_click" /\ exc' = exc /\ li' = li
            ELSE /\ exc' = exc
                 /\ IF li + 1 > Len(login_button_selectors)
                    THEN pc' = "login_no_button" /\ li' = 1
                    ELSE pc' = "login_button_loop" /\ li' = li + 1
    /\ UNCHANGED <<entry, resolved_before, stageLog, mainVars, envVars, login_button_found, label,
                   searchVars, extractVars>>

\* what the page shows once the form was submitted: its URL, and whether
\* the identity input is (still) there
AfterSubmit(d) ==
    { [s \in DOMAIN d |-> IF s = email_selector
                           THEN ListOf(s, e, Blank(1))
                           ELSE d[s]] : e \in FieldShapes }

\* as LoginClick, without the break
LoginClickNoBreak ==
    /\ pc = "login_click"
    /\ \E r \in Waits :
         /\ ops' = Append(ops, Op("click", login_button_selectors[li], 0, r))
         /\ IF r = "ok"
            THEN /\ login_button_found' = TRUE
                 /\ IF li + 1 > Len(login_button_selectors)
                    THEN pc' = "login_settle" /\ li' = 1
                    ELSE pc' = "login_button_loop" /\ li' = li + 1
                 /\ exc' = exc
                 /\ url' \in LoginUrls
                 /\ dom' \in AfterSubmit(dom)
            ELSE LoginRaise(r) /\ UNCHANGED <<login_button_found, li, url, dom>>
    /\ UNCHANGED <<entry, resolved_before, stageLog, mainVars, title, label,
                   searchVars, extractVars>>

\* button.click(); login_button_found = True; break
LoginClick ==
    /\ pc = "login_click"
    /\ \E r \in Waits :
         /\ ops' = Append(ops, Op("click", login_button_selectors[li], 0, r))
         /\ IF r = "ok"
            THEN /\ login_button_found' = TRUE /\ li' = 1
                 /\ pc' = "login_settle" /\ exc' = exc
                 /\ url' \in LoginUrls
                 /\ dom' \in AfterSubmit(dom)
            ELSE LoginRaise(r) /\ UNCHANGED <<login_button_found, li, url, dom>>
    /\ UNCHANGED <<entry, resolved_before, stageLog, mainVars, title, label, searchVars,
                   extractVars>>

\* if not login_button_found:
\*     page.screenshot(path="login_button_not_found.png"); return False
LoginNoButton ==
    /\ pc = "login_no_button"
    /\ label' = "login_button_not_found"
    /\ pc' = "login_result_shot"
    /\ UNCHANGED <<entry, resolved_before, exc, ops, stageLog, mainVars, envVars, li,
                   login_button_found, searchVars, extractVars>>

\* page.wait_for_timeout(5000)
LoginSettle ==
    /\ pc = "login_settle"
    /\ \E r \in NoWait :
         /\ ops' = Append(ops, Op("wait_for_timeout", "5000", 0, r))
         /\ IF r = "ok" THEN pc' = "login_classify" /\ exc' = exc ELSE LoginRaise(r)
    /\ UNCHANGED <<entry, resolved_before, stageLog, mainVars, envVars, loginVars, searchVars,
                   extractVars>>

\* as login_outcome, without .lower()
login_outcome_case_sensitive(u, d) ==
    IF contains(u, "checkpoint")
    THEN "login_failed_checkpoint"
    ELSE IF found_and_visible(d, email_selector)
    THEN "login_failed_email_still_visible"
    ELSE IF /\ contains(u, "login")
            /\ ~contains(u, "home.php")
            /\ ~contains(u, "search")
    THEN "login_failed_still_on_login_page"
    ELSE "login_success_evidence"

\* as login_outcome, without the identity-input branch
login_outcome_no_identity_check(u, d) ==
    IF contains(lower(u), "checkpoint")
    THEN "login_failed_checkpoint"
    ELSE IF /\ contains(lower(u), "login")
            /\ ~contains(lower(u), "home.php")
            /\ ~contains(lower(u), "search")
    THEN "login_failed_still_on_login_page"
    ELSE "login_success_evidence"

\* the if / elif / elif / else of lines 130-145, as the snapshot label of
\* the branch taken
login_outcome(u, d) ==
    IF contains(lower(u), "checkpoint")
    THEN "login_failed_checkpoint"
    ELSE IF found_and_visible(d, email_selector)
    THEN "login_failed_email_still_visible"
    ELSE IF /\ contains(lower(u), "login")
            /\ ~contains(lower(u), "home.php")
            /\ ~contains(lower(u), "search")
    THEN "login_failed_still_on_login_page"
    ELSE "login_success_evidence"

\* the branch is chosen; the identity input is queried unless the URL
\* already decided
LoginClassify ==
    /\ pc = "login_classify"
    /\ IF contains(lower(url), "checkpoint")
       THEN /\ label' = login_outcome(url, dom)
            /\ pc' = "login_result_shot"
            /\ UNCHANGED <<ops, exc>>
       ELSE \E r \in NoWait :
              /\ ops' = Append(ops, Op("query_selector", email_selector, 0, r))
              /\ IF r = "ok"
                 THEN /\ label' = login_outcome(url, dom)
                      /\ pc' = "login_result_shot" /\ exc' = exc
                 ELSE LoginRaise(r) /\ label' = label
    /\ UNCHANGED <<entry, resolved_before, stageLog, mainVars, envVars, li, login_button_found,
                   searchVars, extractVars>>

\* the value returned after the snapshot labelled l
login_result(l) == l = "login_success_evidence"

\* the function returns v to main
LoginReturn(v) ==
    /\ stageLog' = Append(stageLog, Ev("login", IF v THEN "true" ELSE "false"))
    /\ login_successful' = v
    /\ pc' = IF entry = "main" THEN "main_after_login" ELSE "returned"

\* page.screenshot(path=<label>.png); return <result>
LoginResultShot ==
    /\ pc = "login_result_shot"
    /\ \E r \in Waits :
         /\ ops' = Append(ops, Op("screenshot", label, 0, r))
         /\ IF r = "ok"
            THEN LoginReturn(login_result(label)) /\ exc' = exc
            ELSE LoginRaise(r) /\ UNCHANGED <<stageLog, login_successful>>
    /\ UNCHANGED <<loginVars, entry, resolved_before, browser, closes, pageExists, uncaught, ci,
                   cookie_banner_clicked, search_successful, posts, envVars,
                   searchVars, extractVars>>

\* as login_except_label, with the two labels exchanged
login_except_label_swapped(k) ==
    IF k = "timeout" THEN "login_generic_error" ELSE "login_timeout_error"

\* the snapshot label of the except clause that catches exception kind k
login_except_label(k) ==
    IF k = "timeout" THEN "login_timeout_error" ELSE "login_generic_error"

\* except PlaywrightTimeoutError / except Exception:
\*     page.screenshot(path=...); return False
LoginExcept ==
    /\ pc = "login_except"
    /\ \E r \in Waits :
         /\ ops' = Append(ops, Op("screenshot", login_except_label(exc), 0, r))
         /\ IF r = "ok"
            THEN LoginReturn(FALSE) /\ exc' = "none"
            ELSE StageEscape("login", r) /\ login_successful' = login_successful
    /\ UNCHANGED <<loginVars, entry, resolved_before, browser, closes, pageExists, uncaught, ci,
                   cookie_banner_clicked, search_successful, posts, envVars,
                   searchVars, extractVars>>


(***************************************************************************)
(* search_facebook (lines 156-218).                                        *)
(***************************************************************************)
SearchRaise(r) == pc' = "search_except" /\ exc' = r

\* as MainCallSearch, whatever login_to_facebook returned
MainCallSearchUnguarded ==
    /\ pc = "main_after_login"
    /\ pc' = "search_loop"
    /\ stageLog' = Append(stageLog, Ev("search", "call"))
    /\ ops' = << >>
    /\ dom' \in MainSearchPages
    /\ li' = 1 /\ login_button_found' = FALSE /\ label' = ""
    /\ si' = 1
    /\ search_field_actual_selector' = default_search_field_selector
    /\ search_interaction_done' = FALSE
    /\ warned' = FALSE
    /\ UNCHANGED <<entry, resolved_before, exc, mainVars, url, title, extractVars>>

\* if login_successful: search_successful = search_facebook(page, "Bkash")
\* (login_to_facebook's frame is gone)
MainCallSearch ==
    /\ pc = "main_after_login"
    /\ login_successful
    /\ pc' = "search_loop"
    /\ stageLog' = Append(stageLog, Ev("search", "call"))
    /\ ops' = << >>
    /\ dom' \in MainSearchPages
    /\ li' = 1 /\ login_button_found' = FALSE /\ label' = ""
    /\ si' = 1
    /\ search_field_actual_selector' = default_search_field_selector
    /\ search_interaction_done' = FALSE
    /\ warned' = FALSE
    /\ UNCHANGED <<entry, resolved_before, exc, mainVars, url, title, extractVars>>

\* else: "Login failed ..."
MainSkipSearch ==
    /\ pc = "main_after_login"
    /\ ~login_successful
    /\ pc' = "finally"
    /\ UNCHANGED <<entry, resolved_before, exc, ops, stageLog, mainVars, envVars, loginVars,
                   searchVars, extractVars>>

\* for selector in search_trigger_selectors:
\*     trigger_element = page.query_selector(selector)
\*     if trigger_element and trigger_element.is_visible(): ...
SearchProbe ==
    /\ pc = "search_loop"
    /\ LET sel == search_trigger_selectors[si] IN
       \E r \in NoWait :
         /\ ops' = Append(ops, Op("query_selector", sel, 0, r))
         /\ IF r # "ok" THEN SearchRaise(r) /\ si' = si
            ELSE IF found_and_visible(dom, sel)
            THEN pc' = "search_tag" /\ exc' = exc /\ si' = si
            ELSE /\ exc' = exc
                 /\ IF si + 1 > Len(search_trigger_selectors)
                    THEN pc' = "search_not_found" /\ si' = 1
                    ELSE pc' = "search_loop" /\ si' = si + 1
    /\ UNCHANGED <<entry, resolved_before, stageLog, mainVars, envVars, loginVars,
                   search_field_actual_selector, search_interaction_done, warned,
                   extractVars>>

\* as SearchTagName, without  search_field_actual_selector = selector
SearchTagNameNoAssign ==
    /\ pc = "search_tag"
    /\ LET sel == search_trigger_selectors[si] IN
       \E r \in NoWait :
         /\ ops' = Append(ops, Op("tag_name", sel, 0, r))
         /\ IF r # "ok"
            THEN SearchRaise(r)
            ELSE /\ exc' = exc
                 /\ IF tag_name(sel) = "input"
                    THEN pc' = "search_fill_direct"
                    ELSE pc' = "search_click"
    /\ UNCHANGED <<entry, resolved_before, stageLog, mainVars, envVars,
                   loginVars, searchVars, extractVars>>

\* if trigger_element.tag_name() == 'input':
\*     search_field_actual_selector = selector
SearchTagName ==
    /\ pc = "search_tag"
    /\ LET sel == search_trigger_selectors[si] IN
       \E r \in NoWait :
         /\ ops' = Append(ops, Op("tag_name", sel, 0, r))
         /\ IF r # "ok"
            THEN SearchRaise(r) /\ UNCHANGED search_field_actual_selector
            ELSE /\ exc' = exc
                 /\ IF tag_name(sel) = "input"
                    THEN /\ search_field_actual_selector' = sel
                         /\ pc' = "search_fill_direct"
                    ELSE /\ UNCHANGED search_field_actual_selector
                         /\ pc' = "search_click"
    /\ UNCHANGED <<entry, resolved_before, stageLog, mainVars, envVars, loginVars, si,
                   search_interaction_done, warned, extractVars>>

\* trigger_element.fill(keyword)
SearchFillDirect ==
    /\ pc = "search_fill_direct"
    /\ \E r \in Waits :
         /\ ops' = Append(ops, Op("fill", search_trigger_selectors[si], 0, r))
         /\ IF r = "ok" THEN pc' = "search_filled_shot" /\ exc' = exc
            ELSE SearchRaise(r)
    /\ UNCHANGED <<entry, resolved_before, stageLog, mainVars, envVars, loginVars, searchVars,
                   extractVars>>

\* trigger_element.click()
SearchClick ==
    /\ pc = "search_click"
    /\ \E r \in Waits :
         /\ ops' = Append(ops, Op("click", search_trigger_selectors[si], 0, r))
         /\ IF r = "ok" THEN pc' = "search_reveal_wait" /\ exc' = exc
            ELSE SearchRaise(r)
    /\ UNCHANGED <<entry, resolved_before, stageLog, mainVars, envVars, loginVars, searchVars,
                   extractVars>>

\* page.wait_for_timeout(2000)
SearchRevealWait ==
    /\ pc = "search_reveal_wait"
    /\ \E r \in NoWait :
         /\ ops' = Append(ops, Op("wait_for_timeout", "2000", 0, r))
         /\ IF r = "ok" THEN pc' = "search_fill_default" /\ exc' = exc
            ELSE SearchRaise(r)
    /\ UNCHANGED <<entry, resolved_before, stageLog, mainVars, envVars, loginVars, searchVars,
                   extractVars>>

\* page.fill(search_field_actual_selector, keyword)
SearchFillDefault ==
    /\ pc = "search_fill_default"
    /\ \E r \in Waits :
         /\ ops' = Append(ops, Op("fill", search_field_actual_selector, 0, r))
         /\ IF r = "ok" THEN pc' = "search_filled_shot" /\ exc' = exc
            ELSE SearchRaise(r)
    /\ UNCHANGED <<entry, resolved_before, stageLog, mainVars, envVars, loginVars, searchVars,
                   extractVars>>

\* page.screenshot(path="search_keyword_filled.png")
SearchFilledShot ==
    /\ pc = "search_filled_shot"
    /\ \E r \in Waits :
         /\ ops' = Append(ops, Op("screenshot", "search_keyword_filled", 0, r))
         /\ IF r = "ok" THEN pc' = "search_press" /\ exc' = exc
            ELSE SearchRaise(r)
    /\ UNCHANGED <<entry, resolved_before, stageLog, mainVars, envVars, loginVars, searchVars,
                   extractVars>>

\* page.press(search_field_actual_selector, 'Enter')
\* search_interaction_done = True; break
SearchPress ==
    /\ pc = "search_press"
    /\ \E r \in Waits :
         /\ ops' = Append(ops, Op("press", search_field_actual_selector, 0, r))
         /\ IF r = "ok"
            THEN /\ search_interaction_done' = TRUE /\ si' = 1
                 /\ pc' = "search_results_wait" /\ exc' = exc
                 /\ url' \in SearchUrls
            ELSE SearchRaise(r) /\ UNCHANGED <<search_interaction_done, si, url>>
    /\ UNCHANGED <<entry, resolved_before, stageLog, mainVars, dom, title, loginVars,
                   search_field_actual_selector, warned, extractVars>>

\* the function returns v to main
SearchReturn(v) ==
    /\ stageLog' = Append(stageLog, Ev("search", IF v THEN "true" ELSE "false"))
    /\ search_successful' = v
    /\ pc' = IF entry = "main" THEN "main_after_search" ELSE "returned"

\* if not search_interaction_done:
\*     page.screenshot(path="search_trigger_not_found.png"); return False
SearchNotFound ==
    /\ pc = "search_not_found"
    /\ \E r \in Waits :
         /\ ops' = Append(ops, Op("screenshot", "search_trigger_not_found", 0, r))
         /\ IF r = "ok"
            THEN SearchReturn(FALSE) /\ exc' = exc
            ELSE SearchRaise(r) /\ UNCHANGED <<stageLog, search_successful>>
    /\ UNCHANGED <<entry, resolved_before, browser, closes, pageExists, uncaught, ci,
                   cookie_banner_clicked, login_successful, posts, envVars,
                   loginVars, searchVars, extractVars>>

\* page.wait_for_timeout(7000)
SearchResultsWait ==
    /\ pc = "search_results_wait"
    /\ \E r \in NoWait :
         /\ ops' = Append(ops, Op("wait_for_timeout", "7000", 0, r))
         /\ IF r = "ok" THEN pc' = "search_results_shot" /\ exc' = exc
            ELSE SearchRaise(r)
    /\ UNCHANGED <<entry, resolved_before, stageLog, mainVars, envVars, loginVars, searchVars,
                   extractVars>>

\* page.screenshot(path="search_results_page.png")
SearchResultsShot ==
    /\ pc = "search_results_shot"
    /\ \E r \in Waits :
         /\ ops' = Append(ops, Op("screenshot", "search_results_page", 0, r))
         /\ IF r = "ok" THEN pc' = "search_validate" /\ exc' = exc
            ELSE SearchRaise(r)
    /\ UNCHANGED <<entry, resolved_before, stageLog, mainVars, envVars, loginVars, searchVars,
                   extractVars>>

\* keyword.lower() not in page.url.lower() and
\* keyword.lower() not in page.title().lower()
search_warns(keyword, u, t) ==
    /\ ~contains(lower(u), lower(keyword))
    /\ ~contains(lower(t), lower(keyword))

\* as SearchValidate, were the validation to decide the result
SearchValidateHard ==
    /\ pc = "search_validate"
    /\ IF contains(lower(url), lower(search_keyword))
       THEN /\ warned' = search_warns(search_keyword, url, title)
            /\ SearchReturn(TRUE)
            /\ UNCHANGED <<ops, exc, title>>
       ELSE \E r \in NoWait :
              /\ ops' = Append(ops, Op("title", "", 0, r))
              /\ IF r = "ok"
                 THEN /\ title' \in SearchTitles
                      /\ warned' = search_warns(search_keyword, url, title')
                      /\ SearchReturn(~warned') /\ exc' = exc
                 ELSE /\ SearchRaise(r)
                      /\ UNCHANGED <<title, warned, stageLog, search_successful>>
    /\ UNCHANGED <<entry, resolved_before, browser, closes, pageExists, uncaught, ci,
                   cookie_banner_clicked, login_successful, posts, dom, url,
                   loginVars, si, search_field_actual_selector,
                   search_interaction_done, extractVars>>

\* if <neither names the keyword>: print("Warning: ..."); return True
\* (page.title() is read only when the URL does not name the keyword)
SearchValidate ==
    /\ pc = "search_validate"
    /\ IF contains(lower(url), lower(search_keyword))
       THEN /\ warned' = search_warns(search_keyword, url, title)
            /\ SearchReturn(TRUE)
            /\ UNCHANGED <<ops, exc, title>>
       ELSE \E r \in NoWait :
              /\ ops' = Append(ops, Op("title", "", 0, r))
              /\ IF r = "ok"
                 THEN /\ title' \in SearchTitles
                      /\ warned' = search_warns(search_keyword, url, title')
                      /\ SearchReturn(TRUE) /\ exc' = exc
                 ELSE /\ SearchRaise(r)
                      /\ UNCHANGED <<title, warned, stageLog, search_successful>>
    /\ UNCHANGED <<entry, resolved_before, browser, closes, pageExists, uncaught, ci,
                   cookie_banner_clicked, login_successful, posts, dom, url,
                   loginVars, si, search_field_actual_selector,
                   search_interaction_done, extractVars>>

\* the snapshot label of the except clause that catches exception kind k
search_except_label(k) ==
    IF k = "timeout" THEN "search_timeout_error" ELSE "search_generic_error"

\* except PlaywrightTimeoutError / except Exception:
\*     page.screenshot(path=...); return False
SearchExcept ==
    /\ pc = "search_except"
    /\ \E r \in Waits :
         /\ ops' = Append(ops, Op("screenshot", search_except_label(exc), 0, r))
         /\ IF r = "ok"
            THEN SearchReturn(FALSE) /\ exc' = "none"
            ELSE StageEscape("search", r) /\ search_successful' = search_successful
    /\ UNCHANGED <<entry, resolved_before, browser, closes, pageExists, uncaught, ci,
                   cookie_banner_clicked, login_successful, posts, envVars,
                   loginVars, searchVars, extractVars>>


(***************************************************************************)
(* extract_recent_posts (lines 220-297).  The function has no try block    *)
(* of its own around the resolution loop's calls other than the            *)
(* except PlaywrightTimeoutError of line 255, nor around its snapshots.    *)
(***************************************************************************)
\* if search_successful: posts = extract_recent_posts(page, 3)
\* (search_facebook's frame is gone)
MainCallExtract ==
    /\ pc = "main_after_search"
    /\ search_successful
    /\ pc' = "extract_probe"
    /\ stageLog' = Append(stageLog, Ev("extract", "call"))
    /\ ops' = << >>
    /\ dom' \in MainPostPages
    /\ si' = 1
    /\ search_field_actual_selector' = default_search_field_selector
    /\ search_interaction_done' = FALSE
    /\ warned' = warned
    /\ count' = MainCount
    /\ xi' = 1 /\ post_elements' = << >> /\ selected' = 0 /\ ei' = 1
    /\ extracted_posts' = << >>
    /\ UNCHANGED <<entry, resolved_before, exc, mainVars, url, title, loginVars>>

\* else: "Search ... failed ... Skipping post extraction."
MainSkipExtract ==
    /\ pc = "main_after_search"
    /\ ~search_successful
    /\ pc' = "finally"
    /\ UNCHANGED <<entry, resolved_before, exc, ops, stageLog, mainVars, envVars, loginVars,
                   searchVars, extractVars>>

\* as visible_elements, without the is_visible() test
visible_elements_unfiltered(elements_found) == elements_found

\* visible_elements = [el for el in elements_found if el.is_visible()]
visible_elements(elements_found) == SelectSeq(elements_found, LAMBDA el : el.vis)

\* the calls one iteration of the resolution loop issues when none raises
ProbeOps(sel, found) ==
    << Op("wait_for_selector", sel, 0, "ok"),
       Op("query_selector_all", sel, 0, "ok") >>
    \o [i \in 1..Len(found) |-> Op("is_visible", sel, found[i].idx, "ok")]

\* the loop moves to its next selector, or ends without any element
ProbeMiss ==
    /\ UNCHANGED <<post_elements, selected>>
    /\ IF xi + 1 > Len(post_container_selectors)
       THEN pc' = "extract_none_shot" /\ xi' = 1
       ELSE pc' = "extract_probe" /\ xi' = xi + 1

\* as ProbeHit, without the break
ProbeHitNoBreak(visible) ==
    /\ post_elements' = visible
    /\ selected' = xi
    /\ IF xi + 1 > Len(post_container_selectors)
       THEN pc' = "extract_loop" /\ xi' = 1
       ELSE pc' = "extract_probe" /\ xi' = xi + 1

\* post_elements = visible_elements; selected_selector_info = ...; break
ProbeHit(visible) ==
    /\ post_elements' = visible
    /\ selected' = xi
    /\ xi' = 1
    /\ pc' = "extract_loop"

\* one iteration of  for selector in post_container_selectors  (240-257)
ExtractProbe ==
    /\ pc = "extract_probe"
    /\ LET sel == post_container_selectors[xi]
           found == query_selector_all(dom, sel)
       IN
       \/ \* wait_for_selector times out: except PlaywrightTimeoutError: continue
          /\ ~wait_for_selector(dom, sel)
          /\ ops' = Append(ops, Op("wait_for_selector", sel, 0, "timeout"))
          /\ ProbeMiss
          /\ UNCHANGED <<exc, stageLog>>
       \/ \* the selector resolves: the visible matches are the post elements
          /\ wait_for_selector(dom, sel)
          /\ ops' = ops \o ProbeOps(sel, found)
          /\ IF found # << >> /\ visible_elements(found) # << >>
             THEN ProbeHit(visible_elements(found))
             ELSE ProbeMiss
          /\ UNCHANGED <<exc, stageLog>>
       \/ \* a call raises something else: nothing in the function catches it
          /\ \E failing \in {"wait_for_selector"}
                  \cup (IF wait_for_selector(dom, sel)
                        THEN {"query_selector_all", "is_visible"} ELSE {}) :
               ops' = ops \o
                   (IF failing = "wait_for_selector" THEN << >>
                    ELSE IF failing = "query_selector_all"
                    THEN <<Op("wait_for_selector", sel, 0, "ok")>>
                    ELSE <<Op("wait_for_selector", sel, 0, "ok"),
                           Op("query_selector_all", sel, 0, "ok")>>)
                   \o <<Op(failing, sel, 0, "error")>>
          /\ StageEscape("extract", "error")
          /\ UNCHANGED <<xi, post_elements, selected>>
    /\ UNCHANGED <<entry, resolved_before, mainVars, envVars, loginVars, searchVars, count, ei,
                   extracted_posts>>

\* the function returns v to its caller
ExtractReturn(v) ==
    /\ stageLog' = Append(stageLog, Ev("extract", "returned"))
    /\ posts' = v
    /\ pc' = IF entry = "main" THEN "main_after_extract" ELSE "returned"

\* as ExtractNoneShot, without the return
ExtractNoneShotFallThrough ==
    /\ pc = "extract_none_shot"
    /\ \E r \in Waits :
         /\ ops' = Append(ops, Op("screenshot", "no_posts_found_on_page", 0, r))
         /\ IF r = "ok"
            THEN pc' = "extract_done_shot" /\ UNCHANGED <<exc, stageLog, posts>>
            ELSE StageEscape("extract", r) /\ posts' = posts
    /\ UNCHANGED <<entry, resolved_before, browser, closes, pageExists, uncaught, ci,
                   cookie_banner_clicked, login_successful, search_successful,
                   envVars, loginVars, searchVars, extractVars>>

\* if not post_elements:
\*     page.screenshot(path="no_posts_found_on_page.png"); return extracted_posts
ExtractNoneShot ==
    /\ pc = "extract_none_shot"
    /\ \E r \in Waits :
         /\ ops' = Append(ops, Op("screenshot", "no_posts_found_on_page", 0, r))
         /\ IF r = "ok"
            THEN ExtractReturn(extracted_posts) /\ exc' = exc
            ELSE StageEscape("extract", r) /\ posts' = posts
    /\ UNCHANGED <<entry, resolved_before, browser, closes, pageExists, uncaught, ci,
                   cookie_banner_clicked, login_successful, search_successful,
                   envVars, loginVars, searchVars, extractVars>>

at_cap_off_by_one(i, c) == i > c

\* if i >= count: break     (i counts the elements enumerated, from 0)
at_cap(i, c) == i >= c

\* if post_text and post_text.strip()
has_text(post_text) == post_text # "" /\ strip(post_text) # ""

is_noise_disjunction(post_text) ==
    \/ Len(strip(post_text)) < MinLength
    \/ \E phrase \in common_non_post_phrases : contains(lower(post_text), phrase)

\* if len(post_text.strip()) < 75 and
\*    any(phrase in text_lower for phrase in common_non_post_phrases)
is_noise(post_text) ==
    LET text_lower == lower(post_text) IN
    /\ Len(strip(post_text)) < MinLength
    /\ \E phrase \in common_non_post_phrases : contains(text_lower, phrase)

\* the loop over post_elements ends: exhausted, or  if i >= count: break
ExtractLoopExit ==
    /\ pc = "extract_loop"
    /\ ei > Len(post_elements) \/ at_cap(ei - 1, count)
    /\ pc' = "extract_done_shot"
    /\ UNCHANGED <<entry, resolved_before, exc, ops, stageLog, mainVars, envVars, loginVars,
                   searchVars, extractVars>>

\* as ExtractElement, a failed read ending the loop
ExtractElementReadAborts ==
    /\ pc = "extract_loop"
    /\ ei <= Len(post_elements) /\ ~at_cap(ei - 1, count)
    /\ LET el == post_elements[ei] IN
       \E r \in NoWait :
         /\ ops' = Append(ops, Op("inner_text", el.sel, el.idx, r))
         /\ IF r = "ok" /\ has_text(el.text) /\ ~is_noise(el.text)
            THEN extracted_posts' = Append(extracted_posts, strip(el.text))
            ELSE extracted_posts' = extracted_posts
         /\ pc' = IF r = "ok" THEN pc ELSE "extract_done_shot"
    /\ ei' = ei + 1
    /\ UNCHANGED <<entry, resolved_before, exc, stageLog, mainVars, envVars, loginVars,
                   searchVars, count, xi, post_elements, selected>>

\* as ExtractElement, inserting at the front instead of appending
ExtractElementPrepend ==
    /\ pc = "extract_loop"
    /\ ei <= Len(post_elements) /\ ~at_cap(ei - 1, count)
    /\ LET el == post_elements[ei] IN
       \E r \in NoWait :
         /\ ops' = Append(ops, Op("inner_text", el.sel, el.idx, r))
         /\ IF r = "ok" /\ has_text(el.text) /\ ~is_noise(el.text)
            THEN extracted_posts' = <<strip(el.text)>> \o extracted_posts
            ELSE extracted_posts' = extracted_posts
    /\ ei' = ei + 1
    /\ UNCHANGED <<entry, resolved_before, pc, exc, stageLog, mainVars, envVars, loginVars,
                   searchVars, count, xi, post_elements, selected>>

\* one iteration of  for i, post_element in enumerate(post_elements)
ExtractElement ==
    /\ pc = "extract_loop"
    /\ ei <= Len(post_elements) /\ ~at_cap(ei - 1, count)
    /\ LET el == post_elements[ei] IN
       \E r \in NoWait :
         /\ ops' = Append(ops, Op("inner_text", el.sel, el.idx, r))
         /\ IF r = "ok" /\ has_text(el.text) /\ ~is_noise(el.text)
            THEN extracted_posts' = Append(extracted_posts, strip(el.text))
            ELSE \* empty, skipped as noise, or except Exception: go on
                 extracted_posts' = extracted_posts
    /\ ei' = ei + 1
    /\ UNCHANGED <<entry, resolved_before, pc, exc, stageLog, mainVars, envVars, loginVars,
                   searchVars, count, xi, post_elements, selected>>

\* page.screenshot(path="post_extraction_attempt_done.png")
\* return extracted_posts
ExtractDoneShot ==
    /\ pc = "extract_done_shot"
    /\ \E r \in Waits :
         /\ ops' = Append(ops, Op("screenshot", "post_extraction_attempt_done", 0, r))
         /\ IF r = "ok"
            THEN ExtractReturn(extracted_posts) /\ exc' = exc
            ELSE StageEscape("extract", r) /\ posts' = posts
    /\ UNCHANGED <<entry, resolved_before, browser, closes, pageExists, uncaught, ci,
                   cookie_banner_clicked, login_successful, search_successful,
                   envVars, loginVars, searchVars, extractVars>>

(***************************************************************************)
(* main: the end of the try block, its except clauses and its finally      *)
(* (lines 391-414).                                                        *)
(***************************************************************************)
\* if posts: ... else: ...      (prints only)
MainAfterExtract ==
    /\ pc = "main_after_extract"
    /\ pc' = "finally"
    /\ UNCHANGED <<entry, resolved_before, exc, ops, stageLog, mainVars, envVars, loginVars,
                   searchVars, extractVars>>

\* the snapshot label of the except clause that catches exception kind k
main_except_label(k) ==
    IF k = "timeout" THEN "main_global_timeout_error"
    ELSE "main_global_generic_error"

\* except PlaywrightTimeoutError / except Exception:
\*     if 'page' in locals() and page: page.screenshot(path=...)
MainExcept ==
    /\ pc = "main_except"
    /\ pc' = "finally"
    /\ IF pageExists
       THEN \E r \in Waits :
              /\ ops' = Append(ops, Op("screenshot", main_except_label(exc), 0, r))
              /\ exc' = IF r = "ok" THEN "none" ELSE r
       ELSE ops' = ops /\ exc' = "none"
    /\ UNCHANGED <<entry, resolved_before, stageLog, mainVars, envVars, loginVars, searchVars,
                   extractVars>>

\* as MainFinally, were the close the last statement of the try block
MainFinallyOnSuccessOnly ==
    /\ pc = "finally"
    /\ pc' = "done"
    /\ IF browser = "open" /\ exc = "none"
       THEN /\ browser' = "closed"
            /\ closes' = closes + 1
            /\ ops' = Append(ops, Op("close", "browser", 0, "ok"))
       ELSE UNCHANGED <<browser, closes, ops>>
    /\ uncaught' = exc
    /\ exc' = "none"
    /\ UNCHANGED <<entry, resolved_before, stageLog, pageExists, ci, cookie_banner_clicked,
                   login_successful, search_successful, posts, envVars,
                   loginVars, searchVars, extractVars>>

\* finally: if browser: browser.close()
\* an exception still in flight leaves main after the finally clause
MainFinally ==
    /\ pc = "finally"
    /\ pc' = "done"
    /\ IF browser = "open"
       THEN /\ browser' = "closed"
            /\ closes' = closes + 1
            /\ ops' = Append(ops, Op("close", "browser", 0, "ok"))
       ELSE UNCHANGED <<browser, closes, ops>>
    /\ uncaught' = exc
    /\ exc' = "none"
    /\ UNCHANGED <<entry, resolved_before, stageLog, pageExists, ci, cookie_banner_clicked,
                   login_successful, search_successful, posts, envVars,
                   loginVars, searchVars, extractVars>>

(***************************************************************************)
(* Specifications.                                                         *)
(***************************************************************************)
NextExtract ==
    \/ ExtractProbe \/ ExtractNoneShot \/ ExtractLoopExit \/ ExtractElement
    \/ ExtractDoneShot

NextLogin ==
    \/ LoginWaitEmail \/ LoginFillEmail \/ LoginWaitPass \/ LoginFillPass
    \/ LoginButtonProbe \/ LoginClick \/ LoginNoButton \/ LoginSettle
    \/ LoginClassify \/ LoginResultShot \/ LoginExcept

NextSearch ==
    \/ SearchProbe \/ SearchTagName \/ SearchFillDirect \/ SearchClick
    \/ SearchRevealWait \/ SearchFillDefault \/ SearchFilledShot
    \/ SearchPress \/ SearchNotFound \/ SearchResultsWait
    \/ SearchResultsShot \/ SearchValidate \/ SearchExcept

Next ==
    \/ Launch \/ NewPage \/ SetHeaders \/ Goto \/ HomeShot
    \/ CookieProbe \/ CookieClick \/ CookieClickedShot \/ CookieErrorShot
    \/ MainCallLogin
    \/ NextLogin
    \/ MainCallSearch \/ MainSkipSearch
    \/ NextSearch
    \/ MainCallExtract \/ MainSkipExtract
    \/ NextExtract
    \/ MainAfterExtract \/ MainExcept \/ MainFinally

\* main()
Spec == Init /\ [][Next]_vars

\* a stage called on its own, on an open page
InitStage(stage, first) ==
    /\ entry = stage /\ pc = first /\ exc = "none"
    /\ ops = << >> /\ stageLog = <<Ev(stage, "call")>>
    /\ browser = "open" /\ closes = 0 /\ pageExists = TRUE /\ uncaught = "none"
    /\ ci = 1 /\ cookie_banner_clicked = FALSE
    /\ login_successful = FALSE /\ search_successful = FALSE /\ posts = << >>
    /\ title = ""
    /\ LoginLocals0 /\ SearchLocals0 /\ ExtractLocals0
    /\ resolved_before = << >>

\* login_to_facebook(page, email, password) on any login form
InitLogin ==
    /\ InitStage("login", "login_wait_email")
    /\ dom \in LoginPages /\ url = home_url
    /\ count = MainCount

SpecLogin == InitLogin /\ [][NextLogin]_vars

\* search_facebook(page, "Bkash") on any page
InitSearch ==
    /\ InitStage("search", "search_loop")
    /\ dom \in SearchPages /\ url = "https://m.facebook.com/home.php"
    /\ count = MainCount

SpecSearch == InitSearch /\ [][NextSearch]_vars

\* extract_recent_posts(page, count) on any result page, with any count
InitExtract ==
    /\ InitStage("extract", "extract_probe")
    /\ dom \in PostPages /\ url = "https://m.facebook.com/search/top/?q=bkash"
    /\ count \in 0..MaxCount

SpecExtract == InitExtract /\ [][NextExtract]_vars

\* as ExtractCallAgain, were the candidate iterator shared between calls
ExtractCallAgainStale ==
    /\ entry = "extract" /\ pc = "returned" /\ resolved_before = << >>
    /\ resolved_before' = <<selected, Len(post_elements)>>
    /\ pc' = "extract_probe"
    /\ stageLog' = Append(stageLog, Ev("extract", "call"))
    /\ ops' = << >>
    /\ xi' = IF selected < Len(post_container_selectors) THEN selected + 1 ELSE 1
    /\ post_elements' = << >> /\ selected' = 0 /\ ei' = 1
    /\ extracted_posts' = << >>
    /\ UNCHANGED <<entry, exc, mainVars, envVars, loginVars, searchVars, count>>

\* extract_recent_posts(page, count) is called again on the page as the
\* first call left it: its locals start afresh (lines 226, 238-239)
ExtractCallAgain ==
    /\ entry = "extract" /\ pc = "returned" /\ resolved_before = << >>
    /\ resolved_before' = <<selected, Len(post_elements)>>
    /\ pc' = "extract_probe"
    /\ stageLog' = Append(stageLog, Ev("extract", "call"))
    /\ ops' = << >>
    /\ xi' = 1 /\ post_elements' = << >> /\ selected' = 0 /\ ei' = 1
    /\ extracted_posts' = << >>
    /\ UNCHANGED <<entry, exc, mainVars, envVars, loginVars, searchVars, count>>

NextExtractTwice == NextExtract \/ ExtractCallAgain

\* two calls of extract_recent_posts in succession on one page
SpecExtractTwice == InitExtract /\ [][NextExtractTwice]_vars


(***************************************************************************)
(* Properties.                                                             *)
(***************************************************************************)
Min(a, b) == IF a <= b THEN a ELSE b
Prefix(seq, n) == SubSeq(seq, 1, Min(n, Len(seq)))
LastEv == stageLog[Len(stageLog)]
Finished(stage) ==
    stageLog # << >> /\ LastEv.stage = stage /\ LastEv.ev # "call"
Returned(stage) == Finished(stage) /\ LastEv.ev # "raised"
\* some collaborator call of the current stage raised
SomeCallRaised == \E k \in DOMAIN ops : ops[k].out # "ok"
\* inner_text was called on the element and returned its text
ReadOk(el) ==
    \E k \in DOMAIN ops : ops[k] = Op("inner_text", el.sel, el.idx, "ok")
ReadTried(el) ==
    \E k \in DOMAIN ops :
        ops[k].op = "inner_text" /\ ops[k].sel = el.sel /\ ops[k].idx = el.idx
StrippedTexts(els) == [i \in 1..Len(els) |-> strip(els[i].text)]

\* C1: for every page and every count >= 0, extract_recent_posts never
\* holds or returns more than count items, also when more than count
\* visible containers were found; when fewer pass the filter it returns
\* those fewer items: it raises only where a collaborator call raised.
C1_AtMostCount ==
    /\ Len(extracted_posts) <= count
    /\ Returned("extract") => posts = extracted_posts /\ Len(posts) <= count
    /\ (Finished("extract") /\ LastEv.ev = "raised") => ops[Len(ops)].out # "ok"

\* C1 witness: more visible containers than count were found and exactly
\* count items are returned
C1_Witness ==
    /\ Returned("extract") /\ count > 0
    /\ Len(post_elements) > count
    /\ Len(posts) = count

\* the texts a filter that scans all post elements would accept, in DOM order
AcceptedTexts(els) ==
    StrippedTexts(SelectSeq(els, LAMBDA el :
        /\ strip(el.text) # ""
        /\ ~(/\ Len(strip(el.text)) < 75
             /\ \E phrase \in common_non_post_phrases :
                    contains(lower(el.text), phrase))))

\* C2: extract_recent_posts keeps scanning past empty and rejected
\* elements, so (when every text could be read) the result is the first
\* min(count, accepted) accepted texts; on Scenario C with count = 3 it is
\* [item3, item4, item5].
C2_ScansPastRejects ==
    /\ (Returned("extract") /\ selected # 0 /\ ~SomeCallRaised)
          => posts = Prefix(AcceptedTexts(post_elements), count)
    /\ (Returned("extract") /\ dom = ScenarioC /\ count = 3 /\ ~SomeCallRaised)
          => posts = <<"Bkash offer today", "Send money with bKash",
                       "Cashback on payments">>

\* the filter law of the specification, on a text
RejectedByLaw(t) ==
    LET lowered == lower(t) IN
    /\ Len(strip(t)) < 75
    /\ \E phrase \in common_non_post_phrases : contains(lowered, phrase)

HasVisible(i) ==
    \E k \in DOMAIN dom[post_container_selectors[i]] :
        dom[post_container_selectors[i]][k].vis
\* the first candidate in priority order that has one, 0 if none has
FirstVisible ==
    IF \E i \in DOMAIN post_container_selectors : HasVisible(i)
    THEN CHOOSE i \in DOMAIN post_container_selectors :
            HasVisible(i) /\ \A j \in 1..(i - 1) : ~HasVisible(j)
    ELSE 0
\* the waits issued so far, in order
Waited == SelectSeq(ops, LAMBDA o : o.op = "wait_for_selector")

\* C4: the resolution loop selects at most one candidate, the first in
\* priority order whose visible-element set is non-empty; candidates are
\* probed in priority order and none after the selected one is probed (no
\* wait or query names it).  On Scenario A it uses B's 2 elements after
\* probing A (miss) and B (hit), and never C.
C4_FirstVisibleCandidate ==
    entry = "extract" =>
    /\ \A k \in DOMAIN Waited : Waited[k].sel = post_container_selectors[k]
    /\ selected # 0 =>
         /\ selected = FirstVisible
         /\ post_elements # << >>
         /\ \A k \in DOMAIN post_elements :
               post_elements[k].sel = post_container_selectors[selected]
         /\ Len(Waited) = selected
         /\ \A k \in DOMAIN ops : \A j \in DOMAIN post_container_selectors :
               j > selected => ops[k].sel # post_container_selectors[j]
    /\ selected = 0 => post_elements = << >>
    /\ (selected = 0 /\ pc \in {"extract_none_shot", "returned"}) => FirstVisible = 0
    /\ (dom = ScenarioA /\ selected # 0) =>
         /\ selected = 2
         /\ post_elements = dom[post_container_selectors[2]]
         /\ [k \in 1..Len(Waited) |-> Waited[k].out] = <<"timeout", "ok">>

\* C4 witness: Scenario A resolved to B and the call returned B's two texts
C4_Witness ==
    /\ dom = ScenarioA /\ Returned("extract") /\ count >= 2
    /\ selected = 2
    /\ posts = <<"Bkash offer", "Send money">>

\* C5: once the browser is launched it is closed by the time main ends, on
\* every exit path (also when an exception leaves main); it is closed at
\* most once and the close is the last collaborator call.
C5_BrowserReleased ==
    /\ closes <= 1
    /\ (browser = "closed") <=> (closes = 1)
    /\ browser = "none" => ~pageExists
    /\ pc = "done" => browser # "open"
    /\ browser = "closed" => pc = "done" /\ ops[Len(ops)].op = "close"

\* C5 witness: an exception raised inside one of main's except clauses
\* left main, and the browser was closed
C5_Witness ==
    /\ pc = "done" /\ uncaught # "none" /\ browser = "closed"
    /\ \E k \in DOMAIN ops :
          ops[k].op = "screenshot" /\ ops[k].out # "ok"
          /\ ops[k].sel \in {"main_global_timeout_error", "main_global_generic_error"}

\* C6: search_facebook is called only right after login_to_facebook
\* returned true, extract_recent_posts only right after search_facebook
\* returned true; a stage that reported failure (or raised) is the last
\* stage called, and the browser is still closed at the end.
C6_StagesInOrder ==
    /\ \A k \in DOMAIN stageLog :
         /\ stageLog[k] = Ev("search", "call") =>
               k > 1 /\ stageLog[k - 1] = Ev("login", "true")
         /\ stageLog[k] = Ev("extract", "call") =>
               k > 1 /\ stageLog[k - 1] = Ev("search", "true")
         /\ stageLog[k].ev \in {"false", "raised"} => k = Len(stageLog)
    /\ (pc = "done" /\ stageLog # << >>) => browser = "closed"

\* C6 witness: search_facebook reported failure, extract_recent_posts was
\* never called and the browser was closed
C6_Witness ==
    /\ pc = "done" /\ browser = "closed"
    /\ stageLog = <<Ev("login", "call"), Ev("login", "true"),
                    Ev("search", "call"), Ev("search", "false")>>

\* C7: every stage converts every failure of a collaborator call made
\* inside it to a return value: no stage lets an exception out.
C7_StagesNeverRaise ==
    \A k \in DOMAIN stageLog : stageLog[k].ev # "raised"

\* the submit control was clicked and the settle delay has elapsed
Settle == Op("wait_for_timeout", "5000", 0, "ok")
PostSubmit ==
    \E k \in DOMAIN ops :
        /\ ops[k].op = "click" /\ ops[k].out = "ok"
        /\ \E j \in DOMAIN ops : j > k /\ ops[j] = Settle
\* a collaborator call made after the settle delay raised
RaisedAfterSettle ==
    \E k \in DOMAIN ops :
        ops[k] = Settle /\ \E j \in DOMAIN ops : j > k /\ ops[j].out # "ok"
\* the three failure indicators, on the page after submit
UrlHasCheckpoint == contains(lower(url), "checkpoint")
IdentityVisible ==
    dom[email_selector] # << >> /\ dom[email_selector][1].vis
UrlStillLogin ==
    /\ contains(lower(url), "login")
    /\ ~contains(lower(url), "home.php")
    /\ ~contains(lower(url), "search")
AnyIndicator == UrlHasCheckpoint \/ IdentityVisible \/ UrlStillLogin
\* the snapshot label of the first indicator that holds, in order
IndicatedLabel ==
    IF UrlHasCheckpoint THEN "login_failed_checkpoint"
    ELSE IF IdentityVisible THEN "login_failed_email_still_visible"
    ELSE IF UrlStillLogin THEN "login_failed_still_on_login_page"
    ELSE "login_success_evidence"

\* C8 as stated: after submit and settle, the call returns true iff none
\* of the three indicators holds, and returns false in each of the three
\* cases.
C8_AsStated ==
    (PostSubmit /\ Finished("login")) =>
        /\ (LastEv.ev = "true") <=> ~AnyIndicator
        /\ AnyIndicator => LastEv.ev = "false"

\* C8 amended: after submit and settle, the call returns true iff none of
\* the three indicators holds and no collaborator call made after the
\* settle delay raised.  When no such call raised and an indicator holds
\* it returns false, and the one snapshot taken is that of the first
\* indicator in the order checkpoint, identity input, login URL; when
\* such a call raised the call returns false or lets an exception out.
C8_Classification ==
    (PostSubmit /\ Finished("login")) =>
        /\ (LastEv.ev = "true") <=> (~AnyIndicator /\ ~RaisedAfterSettle)
        /\ ~RaisedAfterSettle =>
              /\ Shots = <<IndicatedLabel>>
              /\ AnyIndicator => LastEv.ev = "false"
        /\ RaisedAfterSettle => LastEv.ev \in {"false", "raised"}

\* C8 witness: the URL still names the login page but also the home
\* marker, the identity input is gone, and the call returned true
C8_Witness ==
    /\ PostSubmit /\ Returned("login") /\ LastEv.ev = "true"
    /\ contains(lower(url), "login") /\ contains(lower(url), "home.php")

\* C9 as stated: whenever the identity input is still visible after
\* submit, the call returns false and the snapshot recorded is the
\* identity-input one, whatever the URL.
C9_AsStated ==
    (PostSubmit /\ Finished("login") /\ IdentityVisible) =>
        /\ LastEv.ev = "false"
        /\ Shots = <<"login_failed_email_still_visible">>

\* C9 amended: whenever the identity input is still visible after submit
\* the call never returns true; when no collaborator call made after the
\* settle delay raised it returns false with one snapshot, the
\* identity-input one unless the URL holds the checkpoint marker, which
\* is checked first and then gives the checkpoint snapshot.
C9_IdentityStillVisible ==
    (PostSubmit /\ Finished("login") /\ IdentityVisible) =>
        /\ LastEv.ev # "true"
        /\ ~RaisedAfterSettle =>
              /\ LastEv.ev = "false"
              /\ Shots = << IF UrlHasCheckpoint
                            THEN "login_failed_checkpoint"
                            ELSE "login_failed_email_still_visible" >>

\* C9 witness: the URL is the home page, the identity input is still
\* visible, and the call returned false with the identity-input snapshot
C9_Witness ==
    /\ PostSubmit /\ Returned("login") /\ IdentityVisible
    /\ url = "https://m.facebook.com/home.php"
    /\ LastEv.ev = "false"
    /\ Shots = <<"login_failed_email_still_visible">>

\* a probe of the search loop found a candidate whose first match is visible
ResolvedVisible ==
    \E k \in DOMAIN ops :
        /\ ops[k].op = "query_selector" /\ ops[k].out = "ok"
        /\ dom[ops[k].sel] # << >> /\ dom[ops[k].sel][1].vis

\* C10 as stated: in every call in which some candidate resolved to a
\* visible element, search_facebook returns true.
C10_AsStated ==
    (Finished("search") /\ ResolvedVisible) => LastEv.ev = "true"

\* C10 amended: the call returns true iff some candidate resolved to a
\* visible element and no collaborator call of the search raised; it
\* returns false when no candidate resolves and no call raised, and when
\* a call raised it returns false or lets an exception out.
C10_FailureOnlyUnresolvedOrRaised ==
    Finished("search") =>
        /\ (LastEv.ev = "true") <=> (ResolvedVisible /\ ~SomeCallRaised)
        /\ (~ResolvedVisible /\ ~SomeCallRaised) =>
              LastEv.ev = "false" /\ Shots = <<"search_trigger_not_found">>
        /\ SomeCallRaised => LastEv.ev \in {"false", "raised"}

\* C10 witness: a trigger-shaped candidate was clicked, the query filled
\* and submitted, and the call returned true
C10_Witness ==
    /\ Returned("search") /\ LastEv.ev = "true"
    /\ \E k \in DOMAIN ops : ops[k].op = "click" /\ ops[k].out = "ok"


\* the Enter key press of the search succeeded
Submitted == \E k \in DOMAIN ops : ops[k].op = "press" /\ ops[k].out = "ok"
\* a collaborator call made after the key press raised
RaisedAfterSubmit ==
    \E k \in DOMAIN ops :
        /\ ops[k].op = "press" /\ ops[k].out = "ok"
        /\ \E j \in DOMAIN ops : j > k /\ ops[j].out # "ok"
NamesQuery(s) == contains(lower(s), "bkash")

\* C11: once the query was filled and submitted through the key press,
\* what search_facebook returns is not decided by the post-submit URL or
\* title: it returns true exactly when no later collaborator call (settle
\* wait, snapshot, title read) raised, whatever the URL and title are; the
\* warning is emitted exactly when neither names the query, and the call
\* still returns true then.
C11_SoftValidation ==
    (Submitted /\ Finished("search")) =>
        /\ (LastEv.ev = "true") <=> ~RaisedAfterSubmit
        /\ warned => (LastEv.ev = "true" /\ ~NamesQuery(url) /\ ~NamesQuery(title))
        /\ (LastEv.ev = "true" /\ ~NamesQuery(url) /\ ~NamesQuery(title)) => warned

\* C11 witness: neither the URL nor the title names the query, the warning
\* was emitted and the call returned true
C11_Witness ==
    /\ Submitted /\ Returned("search") /\ LastEv.ev = "true"
    /\ warned /\ title = "Facebook" /\ ~NamesQuery(url)


\* a snapshot with this label was attempted in the current stage
ShotTried(l) == \E k \in DOMAIN ops : ops[k].op = "screenshot" /\ ops[k].sel = l
\* a call raised something extract_recent_posts does not catch
UncaughtInExtract ==
    \E k \in DOMAIN ops :
        /\ ops[k].out # "ok"
        /\ ops[k].op # "inner_text"
        /\ ~(ops[k].op = "wait_for_selector" /\ ops[k].out = "timeout")

\* C12: a call of extract_recent_posts that finds no visible element for
\* any candidate returns the empty sequence with the single snapshot
\* no_posts_found_on_page; a call that resolved elements returns (possibly
\* the empty sequence, when none was accepted) with the single snapshot
\* post_extraction_attempt_done.  The two snapshots are never both taken in
\* one call, and no_posts_found_on_page is taken only when no candidate has
\* a visible element.  The call returns unless a call raised something it
\* does not catch.
C12_DistinctDiagnostics ==
    entry = "extract" =>
    /\ ~(ShotTried("no_posts_found_on_page") /\ ShotTried("post_extraction_attempt_done"))
    /\ ShotTried("no_posts_found_on_page") => (FirstVisible = 0 /\ selected = 0)
    /\ ShotTried("post_extraction_attempt_done") => (FirstVisible # 0 /\ selected # 0)
    /\ Finished("extract") => (Returned("extract") <=> ~UncaughtInExtract)
    /\ Returned("extract") =>
         IF FirstVisible = 0
         THEN posts = << >> /\ Shots = <<"no_posts_found_on_page">>
         ELSE Shots = <<"post_extraction_attempt_done">>

\* C12 witness: the page has container elements but none visible, and the
\* call returned the empty sequence with the nothing-found snapshot
C12_Witness ==
    /\ Returned("extract") /\ posts = << >>
    /\ \E s \in DOMAIN dom : dom[s] # << >>
    /\ FirstVisible = 0
    /\ Shots = <<"no_posts_found_on_page">>

\* C12 second case: elements resolved, every one was read and none
\* accepted; the call returned the empty sequence with the other snapshot
C12_NoneAccepted ==
    /\ Returned("extract") /\ posts = << >> /\ count > 0
    /\ selected # 0 /\ ReadOk(post_elements[1])
    /\ Shots = <<"post_extraction_attempt_done">>


\* C13: whatever fails, the run of main ends without an uncaught
\* exception, with the browser released.
C13_RunCompletes ==
    pc = "done" => (uncaught = "none" /\ browser # "open")


\* the visible elements of a candidate on the page, in DOM order
VisibleOf(i) ==
    SelectSeq(dom[post_container_selectors[i]], LAMBDA el : el.vis)
\* inner_text was called on the element and raised
ReadFailed(el) == ReadTried(el) /\ ~ReadOk(el)
\* the trimmed texts, in DOM order, of the selected candidate's visible
\* elements that survive the filter (an element whose text could not be
\* read has no text to survive with)
Survivors ==
    StrippedTexts(SelectSeq(VisibleOf(selected), LAMBDA el :
        /\ ~ReadFailed(el)
        /\ strip(el.text) # ""
        /\ ~RejectedByLaw(el.text)))

\* C14: the sequence extract_recent_posts returns is a prefix of the
\* DOM-order sequence of trimmed texts of the selected candidate's visible
\* elements that survive the filter: DOM order, no survivor skipped in
\* favour of a later one, nothing reordered or duplicated, every string
\* trimmed.
C14_PrefixOfSurvivors ==
    Returned("extract") =>
        IF selected = 0 THEN posts = << >>
        ELSE /\ Len(posts) <= Len(Survivors)
             /\ posts = SubSeq(Survivors, 1, Len(posts))

\* C14 witness: two different texts were returned, the second of them
\* trimmed, with an element between them that did not survive
C14_Witness ==
    /\ Returned("extract") /\ Len(posts) = 2 /\ posts[1] # posts[2]
    /\ Len(post_elements) = 3
    /\ posts[1] = post_elements[1].text
    /\ strip(post_elements[2].text) = ""
    /\ posts[2] # post_elements[3].text /\ posts[2] = strip(post_elements[3].text)


Clicks == SelectSeq(ops, LAMBDA o : o.op = "click")
ButtonProbes ==
    SelectSeq(ops, LAMBDA o : o.op = "query_selector" /\ o.sel # email_selector)
\* both fields were filled
BothFilled ==
    \E k, j \in DOMAIN ops :
        k < j /\ ops[k] = Op("fill", email_selector, 0, "ok")
              /\ ops[j] = Op("fill", pass_selector, 0, "ok")
\* the first submit candidate with some visible match, 0 if none has
FirstWithVisibleButton ==
    LET has(i) == \E k \in DOMAIN dom[login_button_selectors[i]] :
                      dom[login_button_selectors[i]][k].vis
    IN  IF \E i \in DOMAIN login_button_selectors : has(i)
        THEN CHOOSE i \in DOMAIN login_button_selectors :
                 has(i) /\ \A j \in 1..(i - 1) : ~has(j)
        ELSE 0
\* the first submit candidate whose first match in DOM order is visible
FirstClickableButton ==
    LET ok(i) == /\ dom[login_button_selectors[i]] # << >>
                 /\ dom[login_button_selectors[i]][1].vis
    IN  IF \E i \in DOMAIN login_button_selectors : ok(i)
        THEN CHOOSE i \in DOMAIN login_button_selectors :
                 ok(i) /\ \A j \in 1..(i - 1) : ~ok(j)
        ELSE 0
\* no settle wait and no identity-input query: no post-submit inference
NoInference ==
    \A k \in DOMAIN ops :
        /\ ops[k].op # "wait_for_timeout"
        /\ ~(ops[k].op = "query_selector" /\ ops[k].sel = email_selector)

C17_AllVisibleOfOneCandidate ==
    entry = "extract" =>
    /\ selected # 0 =>
         /\ post_elements = VisibleOf(selected)
         /\ \A k \in DOMAIN post_elements :
               /\ post_elements[k].vis
               /\ post_elements[k].sel = post_container_selectors[selected]
               /\ \A j \in DOMAIN post_elements :
                     k < j => post_elements[k].idx < post_elements[j].idx
    /\ \A k \in DOMAIN ops :
         ops[k].op = "inner_text" =>
             \E j \in DOMAIN post_elements :
                 /\ post_elements[j].sel = ops[k].sel
                 /\ post_elements[j].idx = ops[k].idx

\* C17 witness: the selected candidate matches a hidden and a visible
\* element, a later candidate has visible elements too, and the call
\* processed the one visible element of the selected candidate
C17_Witness ==
    /\ Returned("extract") /\ selected # 0 /\ count > 0
    /\ Len(dom[post_container_selectors[selected]]) = 2
    /\ Len(post_elements) = 1 /\ post_elements[1].idx = 2
    /\ ReadOk(post_elements[1])
    /\ \E j \in DOMAIN post_container_selectors : j > selected /\ HasVisible(j)


\* the first search candidate whose first match is visible, 0 if none
FirstVisibleTrigger ==
    LET ok(i) == /\ dom[search_trigger_selectors[i]] # << >>
                 /\ dom[search_trigger_selectors[i]][1].vis
    IN  IF \E i \in DOMAIN search_trigger_selectors : ok(i)
        THEN CHOOSE i \in DOMAIN search_trigger_selectors :
                 ok(i) /\ \A j \in 1..(i - 1) : ~ok(j)
        ELSE 0
\* the candidate's selector names an input element
InputShaped(i) == SubSeq(search_trigger_selectors[i], 1, 5) = "input"
\* the calls of one kind issued in the current stage, in order
OpsOf(kind) == SelectSeq(ops, LAMBDA o : o.op = kind)
\* positions of the successful calls of one kind on one selector
OkAt(kind, sel) == {k \in DOMAIN ops : ops[k] = Op(kind, sel, 0, "ok")}

\* C18: search_facebook interacts with one candidate only, the first in
\* priority order that is visible; candidates are queried in order and none
\* after it.  If it is input-shaped the query is filled into it with no
\* click and Enter is pressed on its selector; if trigger-shaped it is
\* clicked, then after the 2000 ms wait the query is filled into the
\* default input selector and Enter is pressed on that one.  There is at
\* most one fill and one key press, the fill before the key press; when no
\* call raised all of these steps happened.
C18_ShapeBranch ==
    LET c == FirstVisibleTrigger
        probes == OpsOf("query_selector")
        acted == {k \in DOMAIN ops : ops[k].op \in {"tag_name", "click", "fill", "press"}}
    IN
    entry = "search" =>
    /\ \A k \in DOMAIN probes : probes[k].sel = search_trigger_selectors[k]
    /\ c = 0 => acted = {}
    /\ c # 0 =>
         LET sel == search_trigger_selectors[c]
             field == IF InputShaped(c) THEN sel ELSE default_search_field_selector
         IN
         /\ Len(probes) <= c
         /\ Len(OpsOf("click")) <= 1 /\ Len(OpsOf("fill")) <= 1
         /\ Len(OpsOf("press")) <= 1
         /\ \A k \in acted :
               /\ ops[k].op \in {"tag_name", "click"} => ops[k].sel = sel
               /\ ops[k].op \in {"fill", "press"} => ops[k].sel = field
               /\ ops[k].op = "click" => ~InputShaped(c)
               /\ (ops[k].op = "fill" /\ ~InputShaped(c)) =>
                     \E i \in OkAt("click", sel) :
                         \E j \in DOMAIN ops :
                             i < j /\ j < k /\ ops[j] = Op("wait_for_timeout", "2000", 0, "ok")
               /\ ops[k].op = "press" => \E i \in OkAt("fill", field) : i < k
               /\ \A j \in DOMAIN ops : j > k => ops[j].op # "query_selector"
         /\ (Finished("search") /\ ~SomeCallRaised) =>
               /\ OkAt("press", field) # {}
               /\ InputShaped(c) <=> OkAt("click", sel) = {}

\* C18 witness (trigger shape): the first visible candidate is a link; it
\* was clicked, the default input filled, Enter pressed on the default
\* input, while an input-shaped candidate is visible too and was not used
C18_Witness ==
    /\ Returned("search") /\ LastEv.ev = "true"
    /\ FirstVisibleTrigger # 0 /\ ~InputShaped(FirstVisibleTrigger)
    /\ \E i \in DOMAIN search_trigger_selectors :
          InputShaped(i) /\ dom[search_trigger_selectors[i]] # << >>
                         /\ dom[search_trigger_selectors[i]][1].vis
    /\ OkAt("press", default_search_field_selector) # {}

\* C18, input shape: the first visible candidate is an input (a
\* higher-priority trigger is present but hidden); it was filled directly
\* and Enter pressed on its selector, with no click
C18_InputShapeReached ==
    /\ Returned("search") /\ LastEv.ev = "true"
    /\ FirstVisibleTrigger # 0 /\ InputShaped(FirstVisibleTrigger)
    /\ \E i \in 1..4 : dom[search_trigger_selectors[i]] # << >>
    /\ OkAt("press", search_trigger_selectors[FirstVisibleTrigger]) # {}
    /\ OpsOf("click") = << >>


\* what the first collaborator call that raised in the current stage raised
FirstRaised ==
    LET failed == SelectSeq(ops, LAMBDA o : o.out # "ok")
    IN  IF failed = << >> THEN "none" ELSE failed[1].out

\* C19: every call of login_to_facebook that returns has captured exactly
\* one snapshot, taken as its last collaborator call; the call returns true
\* exactly when it is login_success_evidence, and otherwise the snapshot
\* is labelled by the failure cause: login_button_not_found (no clickable
\* submit control), login_failed_checkpoint, login_failed_email_still_visible,
\* login_failed_still_on_login_page (the indicator that held after submit),
\* login_timeout_error or login_generic_error (what the first failing
\* call raised).
C19_OneLabelledSnapshot ==
    Returned("login") =>
    /\ Len(Shots) = 1
    /\ ops[Len(ops)] = Op("screenshot", Shots[1], 0, "ok")
    /\ (LastEv.ev = "true") <=> (Shots[1] = "login_success_evidence")
    /\ CASE Shots[1] = "login_button_not_found" ->
              FirstRaised = "none" /\ Clicks = << >> /\ FirstClickableButton = 0
         [] Shots[1] = "login_failed_checkpoint" ->
              FirstRaised = "none" /\ PostSubmit /\ UrlHasCheckpoint
         [] Shots[1] = "login_failed_email_still_visible" ->
              FirstRaised = "none" /\ PostSubmit /\ IdentityVisible
         [] Shots[1] = "login_failed_still_on_login_page" ->
              FirstRaised = "none" /\ PostSubmit /\ UrlStillLogin
         [] Shots[1] = "login_success_evidence" ->
              FirstRaised = "none" /\ PostSubmit /\ ~AnyIndicator
         [] Shots[1] = "login_timeout_error" -> FirstRaised = "timeout"
         [] Shots[1] = "login_generic_error" -> FirstRaised = "error"
         [] OTHER -> FALSE

\* C19 witness: the snapshot of the outcome reached timed out, and the
\* call returned false with the one snapshot login_timeout_error
C19_Witness ==
    /\ Returned("login") /\ LastEv.ev = "false"
    /\ Shots = <<"login_timeout_error">>
    /\ \E k \in DOMAIN ops :
          ops[k] = Op("screenshot", "login_failed_checkpoint", 0, "timeout")


\* a field has a visible element on the page
FieldVisible(sel) == \E k \in DOMAIN dom[sel] : dom[sel][k].vis
\* the positions of the calls of one kind on one selector, whatever they gave
TriedAt(kind, sel) == {k \in DOMAIN ops : ops[k].op = kind /\ ops[k].sel = sel}
\* the wait for a field timed out
TimedOut(sel) ==
    \E k \in DOMAIN ops : ops[k] = Op("wait_for_selector", sel, 0, "timeout")

\* C20: in login_to_facebook a field is filled only after it was waited
\* for and found visible; the secret field is waited for and filled only
\* after the identity field was filled; a submit control is queried and
\* clicked only after both fields were filled.  If the wait for the
\* identity field (or the secret field) times out, which happens exactly
\* when the field is not visible, no later field is filled, no submit
\* control is queried or clicked, and the call does not return true: it
\* returns false with the login_timeout_error snapshot (or raises when that
\* snapshot raises).
C20_FixedOrder ==
    entry = "login" =>
    /\ \A k \in TriedAt("fill", email_selector) :
          \E i \in OkAt("wait_for_selector", email_selector) : i < k
    /\ \A k \in TriedAt("wait_for_selector", pass_selector) :
          \E i \in OkAt("fill", email_selector) : i < k
    /\ \A k \in TriedAt("fill", pass_selector) :
          \E i \in OkAt("wait_for_selector", pass_selector) : i < k
    /\ \A k \in DOMAIN ButtonProbes : BothFilled
    /\ Clicks # << >> => BothFilled
    /\ OkAt("wait_for_selector", pass_selector) # {} => FieldVisible(pass_selector)
    /\ (OkAt("wait_for_selector", email_selector) # {} /\ Clicks = << >>)
          => FieldVisible(email_selector)
    /\ \A sel \in {email_selector, pass_selector} :
          TimedOut(sel) =>
             /\ ~FieldVisible(sel)
             /\ TriedAt("fill", sel) = {} /\ TriedAt("fill", pass_selector) = {}
             /\ ButtonProbes = << >> /\ Clicks = << >>
             /\ Finished("login") => LastEv.ev \in {"false", "raised"}
             /\ Returned("login") => Shots = <<"login_timeout_error">>

\* C20 witness: the identity field was filled, the secret field is not
\* visible although a submit control is; the call returned false with the
\* timeout snapshot and clicked nothing
C20_Witness ==
    /\ Returned("login") /\ LastEv.ev = "false"
    /\ OkAt("fill", email_selector) # {}
    /\ TimedOut(pass_selector)
    /\ FirstClickableButton # 0 /\ Clicks = << >>
    /\ Shots = <<"login_timeout_error">>



\* the elements the loop has passed: those before position ei
Processed == Prefix(post_elements, ei - 1)
\* the trimmed texts, in order, of the passed elements whose text was read
\* and passes the filter
KeptOf(els) ==
    StrippedTexts(SelectSeq(els, LAMBDA el :
        /\ ReadOk(el)
        /\ strip(el.text) # ""
        /\ ~RejectedByLaw(el.text)))

\* C21: in extract_recent_posts a failure while reading the text of one
\* element is isolated to that element.  Once elements are resolved, the
\* items held are exactly the accepted texts of the elements passed so far
\* whose read succeeded (a failed read adds nothing and removes nothing);
\* when the loop is left every element up to the count-th was read or
\* tried, also those after a failed one; no read failure raises out of the
\* call: the call returns what it holds unless the final snapshot raised.
C21_ReadFailureIsolated ==
    (entry = "extract" /\ selected # 0) =>
    /\ extracted_posts = KeptOf(Processed)
    /\ (pc # "extract_loop") =>
          /\ ei - 1 = Min(count, Len(post_elements))
          /\ \A i \in 1..(ei - 1) : ReadTried(post_elements[i])
    /\ Finished("extract") =>
          /\ Returned("extract") <=> ops[Len(ops)].out = "ok"
          /\ LastEv.ev = "raised" => ops[Len(ops)].op = "screenshot"
          /\ Returned("extract") => posts = extracted_posts

\* C21 witness: of three elements the read of the second failed; the call
\* returned the texts of the first and the third
C21_Witness ==
    /\ Returned("extract") /\ Len(post_elements) = 3
    /\ ReadOk(post_elements[1]) /\ ReadFailed(post_elements[2])
    /\ ReadOk(post_elements[3])
    /\ posts = <<strip(post_elements[1].text), strip(post_elements[3].text)>>



\* the calls main made on consent controls so far (the call log is
\* started afresh when login_to_facebook is called)
ConsentOps ==
    SelectSeq(ops, LAMBDA o : o.sel \in Rng(cookie_banner_selectors))
ConsentClicksOk ==
    SelectSeq(ConsentOps, LAMBDA o : o.op = "click" /\ o.out = "ok")
\* the run left main's try block before login_to_facebook was called
LeftBeforeLogin == stageLog = << >> /\ pc \in {"main_except", "finally", "done"}

\* C22: consent dismissal in main never blocks the pipeline and clicks at
\* most one consent control successfully: before login_to_facebook is
\* called, at most one click on a consent control has succeeded, no
\* candidate is probed or clicked after a successful click, and once a
\* click on a consent control was tried (successfully or not) the run does
\* not leave main's try block without calling login_to_facebook.
C22_AsStated ==
    stageLog = << >> =>
    /\ Len(ConsentClicksOk) <= 1
    /\ \A k \in DOMAIN ConsentOps :
          (ConsentOps[k].op = "click" /\ ConsentOps[k].out = "ok")
             => k = Len(ConsentOps)
    /\ LeftBeforeLogin =>
          \A k \in DOMAIN ConsentOps : ConsentOps[k].op # "click"

=============================================================================
